---- MODULE Spec2Model ----
(***************************************************************************)
(* Model of coasc/models.py: the account table (Ac), the transaction table *)
(* (Transaction), the split table (Split), the two pre_save receivers and  *)
(* the validation methods.                                                 *)
(*                                                                         *)
(* Amounts are DecimalField(decimal_places=2) values, counted in           *)
(* hundredths, so they are integers here.  A null foreign key is Null, a   *)
(* null category is the string "None".  name, code and desc take no part   *)
(* in any rule of models.py and are left out of the rows.                  *)
(***************************************************************************)
EXTENDS Integers, FiniteSets, Sequences, Bags, TLC

\* ---------------------------------------------------------------- bounds
MaxAcs == 2
MaxTxs == 2
MaxSplits == 2
MaxLedgerSplits == 2

\* ------------------------------------------------------------- constants
Null == 0

ASSET == "AS"
LIABILITY == "LI"
INCOME == "IN"
EXPENSES == "EX"
CATEGORY_CHOICES == {ASSET, LIABILITY, INCOME, EXPENSES}

PERSONAL == "P"
IMPERSONAL == "I"
TYPE_AC_CHOICES == {PERSONAL, IMPERSONAL}

DEBIT == "dr"
CREDIT == "cr"
TYPE_SPLIT_CHOICES == {DEBIT, CREDIT}

\* exceptions.py: the subclasses of AccountError and of TransactionError.
AccountErrors ==
    {"AccountingEquationViolationError", "CategoryOnChildAccountError",
     "TransactionOnParentAcError", "InvalidAccountError",
     "AccountWithTransactionCannotBeParentError",
     "ChildAccountCannotBeParentError", "MemberRequiredOnPersonalAcError",
     "MemberOnImpersonalAcError"}
TransactionErrors == {"EmptyTransactionError", "UnbalancedTransactionError"}

\* The derived attributes class Ac defines as properties.
AcProperties == {"is_parent", "is_standalone", "is_child"}

\* acs:    the Ac table, pk -> row
\* txs:    the Transaction table, the set of stored pks
\* splits: the Split table, a bag of rows (no code reads a split's pk, so
\*         two rows with equal fields are told apart only by their count)
\* last:   the operation that ran last (every operation sets it), the
\*         account or transaction it was aimed at, and what it returned
\*         or raised
\* tx_date: Transaction.tx_date of every stored transaction
\* block:  the call of revert_transaction that is observed step by step:
\*         the transaction t it was called on, the revert_tx it creates, and
\*         while its transaction.atomic() block is open the writes that are
\*         not committed yet; once it has returned, t and the revert_tx it
\*         returned; NoBlock before the call and after a rollback
\* saves:  the save() of an account and the save() of a split that two
\*         connections run at the same time, each observed in two steps:
\*         its pre_save receiver, then its write or the raise of what the
\*         receiver raised
VARIABLES acs, txs, splits, last, tx_date, block, saves
vars == <<acs, txs, splits, last, tx_date, block, saves>>

\* ------------------------------------------------------------ input sets
AcPks == 1..MaxAcs
TxPks == 1..MaxTxs
Dates == {1, 2}
\* The date timezone.now gives while the clock is not modelled.
Today == 1
\* Split.am inputs: DecimalField takes any amount, zero included.
AmValues == {0, 1}
MemInputs == {Null, 1}
CatInputs == {"None", ASSET}

\* The instances handed to Ac.save(): every parent link with every
\* category input on an impersonal account without a member, and the root
\* with each combination of account type and member.
AcInstances ==
    [p_ac : {Null} \cup AcPks, cat : CatInputs,
     t_ac : {IMPERSONAL}, mem : {Null}]
    \cup [p_ac : {Null}, cat : {ASSET},
          t_ac : TYPE_AC_CHOICES, mem : MemInputs]

SplitInstances ==
    [tx : TxPks, ac : AcPks, t_sp : TYPE_SPLIT_CHOICES, am : AmValues]

\* A two-letter value of Ac.cat that is none of CATEGORY_CHOICES: save()
\* runs no field validation, so choices refuse nothing.
OtherCat == "EQ"

\* The instances handed to the save() of the concurrent account writer:
\* those of AcInstances and a root in a category outside the choices.
WriterAcInstances ==
    AcInstances
    \cup {[p_ac |-> Null, cat |-> OtherCat, t_ac |-> IMPERSONAL, mem |-> Null]}

\* --------------------------------------------------- Ac: derived properties
\* self.ac_set.exists(): some stored account has pk as its p_ac.
ac_set_exists(pk) == \E k \in DOMAIN acs : acs[k].p_ac = pk

\* self.split_set.exists() of an account: some stored split has pk as its ac.
split_set_exists(pk) == \E r \in BagToSet(splits) : r.ac = pk

\* is_parent with the parent link tested the wrong way round.
is_parent_with_parent_link(pk) ==
    acs[pk].cat # "None" /\ acs[pk].p_ac # Null /\ ac_set_exists(pk)

\* Ac.is_parent of the stored account pk.
is_parent(pk) ==
    acs[pk].cat # "None" /\ acs[pk].p_ac = Null /\ ac_set_exists(pk)

\* is_standalone without the test for children.
is_standalone_without_children_test(pk) ==
    acs[pk].cat # "None" /\ acs[pk].p_ac = Null

\* Ac.is_standalone of the stored account pk.
is_standalone(pk) ==
    acs[pk].cat # "None" /\ acs[pk].p_ac = Null /\ ~ac_set_exists(pk)

\* Ac.is_child of an instance (stored or about to be saved).
is_child(inst) == inst.p_ac # Null /\ inst.cat = "None"

\* Python truthiness of a CharField value: None and "" are falsy.
Truthy(cat) == cat \notin {"None", ""}

\* --------------------------------------------------------- pre_save of Ac
\* ac_instance.p_ac: the instance itself when it names itself as parent,
\* the stored row otherwise.
p_ac_of(pk, inst) == IF inst.p_ac = pk THEN inst ELSE acs[inst.p_ac]

\* The rules of raise_exceptions_ac that follow its first condition.
ac_rules(pk, inst) ==
    IF is_child(inst) /\ Truthy(inst.cat)
        THEN "CategoryOnChildAccountError"
    ELSE IF is_child(inst) /\ split_set_exists(inst.p_ac)
        THEN "AccountWithTransactionCannotBeParentError"
    ELSE IF is_child(inst) /\ is_child(p_ac_of(pk, inst))
        THEN "ChildAccountCannotBeParentError"
    ELSE IF inst.t_ac = PERSONAL /\ inst.mem = Null
        THEN "MemberRequiredOnPersonalAcError"
    ELSE IF inst.t_ac = IMPERSONAL /\ inst.mem # Null
        THEN "MemberOnImpersonalAcError"
    ELSE "ok"

\* raise_exceptions_ac with the root test in place and without the rule
\* against a child as parent.
raise_exceptions_ac_without_nesting_rule(pk, inst) ==
    IF ~(inst.p_ac = Null /\ inst.cat # "None") /\ ~is_child(inst)
        THEN "InvalidAccountError"
    ELSE IF is_child(inst) /\ split_set_exists(inst.p_ac)
        THEN "AccountWithTransactionCannotBeParentError"
    ELSE IF inst.t_ac = PERSONAL /\ inst.mem = Null
        THEN "MemberRequiredOnPersonalAcError"
    ELSE IF inst.t_ac = IMPERSONAL /\ inst.mem # Null
        THEN "MemberOnImpersonalAcError"
    ELSE "ok"

\* raise_exceptions_ac that refuses nothing.
raise_exceptions_ac_unchecked(pk, inst) == "ok"

\* raise_exceptions_ac with the root test of its first condition in place.
raise_exceptions_ac_with_root_test(pk, inst) ==
    IF ~(inst.p_ac = Null /\ inst.cat # "None") /\ ~is_child(inst)
        THEN "InvalidAccountError"
        ELSE ac_rules(pk, inst)

\* raise_exceptions_ac: its first condition reads ac_instance.is_root, and
\* reading an attribute the class does not define raises AttributeError
\* before any rule is evaluated.
raise_exceptions_ac(pk, inst) ==
    IF "is_root" \notin AcProperties
        THEN "AttributeError"
        ELSE ac_rules(pk, inst)

\* ------------------------------------------------------ pre_save of Split
\* raise_exceptions_split without its check.
raise_exceptions_split_unchecked(sp) == "ok"

\* raise_exceptions_split: a split on a parent account is refused.
raise_exceptions_split(sp) ==
    IF is_parent(sp.ac) THEN "TransactionOnParentAcError" ELSE "ok"

\* ------------------------------------------------------------ aggregation
\* The sum of am over the rows R of the split table, each counted as often
\* as it is stored.
RECURSIVE SumAm(_)
SumAm(R) ==
    IF R = {} THEN 0
    ELSE LET r == CHOOSE x \in R : TRUE
         IN  r.am * CopiesIn(r, splits) + SumAm(R \ {r})

\* Aggregate with a missing sum coalesced to zero.
Aggregate_coalesced(rows, side) ==
    LET m == {r \in rows : r.t_sp = side}
    IN  <<TRUE, SumAm(m)>>

\* Sum("am", filter=Q(t_sp=side)) over a set of rows: SQL SUM is NULL (None)
\* when no row matches.  <<FALSE, 0>> is None, <<TRUE, n>> is Decimal n.
Aggregate(rows, side) ==
    LET m == {r \in rows : r.t_sp = side}
    IN  IF m = {} THEN <<FALSE, 0>> ELSE <<TRUE, SumAm(m)>>

\* x or Decimal("0")
OrZero(x) == IF x[1] /\ x[2] # 0 THEN x[2] ELSE 0

\* self.split_set of a transaction
split_set(t) == {r \in BagToSet(splits) : r.tx = t}

\* validate_transaction that only tests for an empty transaction.
validate_transaction_presence_only(t) ==
    IF split_set(t) = {} THEN "EmptyTransactionError" ELSE "True"

\* validate_transaction that compares the sums only when both are present.
validate_transaction_one_side_accepted(t) ==
    LET total_debit == Aggregate(split_set(t), DEBIT)
        total_credit == Aggregate(split_set(t), CREDIT)
    IN  IF ~total_debit[1] /\ ~total_credit[1] THEN "EmptyTransactionError"
        ELSE IF total_debit[1] /\ total_credit[1] /\ total_debit # total_credit
            THEN "UnbalancedTransactionError"
        ELSE "True"

\* Transaction.validate_transaction
validate_transaction(t) ==
    LET total_debit == Aggregate(split_set(t), DEBIT)
        total_credit == Aggregate(split_set(t), CREDIT)
    IN  IF ~total_debit[1] /\ ~total_credit[1] THEN "EmptyTransactionError"
        ELSE IF total_debit # total_credit THEN "UnbalancedTransactionError"
        ELSE "True"

\* The difference taken as credit minus debit.
equation_difference_swapped ==
    OrZero(Aggregate(BagToSet(splits), CREDIT))
        - OrZero(Aggregate(BagToSet(splits), DEBIT))

\* Ac.validate_accounting_equation: the difference it computes.
equation_difference ==
    OrZero(Aggregate(BagToSet(splits), DEBIT))
        - OrZero(Aggregate(BagToSet(splits), CREDIT))

\* Ac.validate_accounting_equation
validate_accounting_equation ==
    IF equation_difference # 0
        THEN "AccountingEquationViolationError"
        ELSE "True"

\* ----------------------------------------------------------------- Ac.bal
\* The sum of am over the rows R of a split table, each counted as often
\* as the table stores it.
RECURSIVE SumAmIn(_, _)
SumAmIn(table, R) ==
    IF R = {} THEN 0
    ELSE LET r == CHOOSE x \in R : TRUE
         IN  r.am * CopiesIn(r, table) + SumAmIn(table, R \ {r})

\* Sum(Case(When(t_sp=side, then=F("am")))) over rows of a table: a row of
\* the other side counts as NULL, and SUM over no value is NULL (None).
bal_aggregate(table, rows, side) ==
    LET m == {r \in rows : r.t_sp = side}
    IN  IF m = {} THEN <<FALSE, 0>> ELSE <<TRUE, SumAmIn(table, m)>>

\* The rows bal takes for a parent: the account's own.
bal_splits_own_rows(table, pk, start_date, end_date) ==
    {r \in BagToSet(table) :
        /\ r.ac = pk
        /\ start_date = Null \/ tx_date[r.tx] >= start_date
        /\ end_date = Null \/ tx_date[r.tx] <= end_date}

\* sps of bal: the splits of the children of a parent, the account's own
\* splits otherwise, cut to the date range; a date that is None is not
\* filtered on.
bal_splits(table, pk, start_date, end_date) ==
    LET sps == IF is_parent(pk)
                   THEN {r \in BagToSet(table) : acs[r.ac].p_ac = pk}
                   ELSE {r \in BagToSet(table) : r.ac = pk}
    IN  {r \in sps :
            /\ start_date = Null \/ tx_date[r.tx] >= start_date
            /\ end_date = Null \/ tx_date[r.tx] <= end_date}

\* max that gives its first argument.
Max_unclamped(a, b) == a

\* max of two Decimals
Max(a, b) == IF a >= b THEN a ELSE b

\* bal with the net balance taken as debit minus credit for every category.
bal_on_debit_minus_credit(table, pk, start_date, end_date) ==
    LET sps == bal_splits(table, pk, start_date, end_date)
        total_debit == OrZero(bal_aggregate(table, sps, DEBIT))
        total_credit == OrZero(bal_aggregate(table, sps, CREDIT))
    IN  [exception |-> "None",
         net_balance |-> total_debit - total_credit,
         net_debit |-> Max(total_debit - total_credit, 0),
         net_credit |-> Max(-(total_debit - total_credit), 0),
         total_debit |-> total_debit, total_credit |-> total_credit]

\* Ac.bal computed on a split table.  When the category is none of the four
\* choices no branch binds net_balance and the return statement raises
\* UnboundLocalError.
bal_on(table, pk, start_date, end_date) ==
    LET sps == bal_splits(table, pk, start_date, end_date)
        total_debit == OrZero(bal_aggregate(table, sps, DEBIT))
        total_credit == OrZero(bal_aggregate(table, sps, CREDIT))
        ac_cat == IF is_child(acs[pk]) THEN acs[acs[pk].p_ac].cat
                                       ELSE acs[pk].cat
    IN  IF ac_cat \in {ASSET, EXPENSES}
            THEN [exception |-> "None",
                  net_balance |-> total_debit - total_credit,
                  net_debit |-> Max(total_debit - total_credit, 0),
                  net_credit |-> Max(-(total_debit - total_credit), 0),
                  total_debit |-> total_debit, total_credit |-> total_credit]
        ELSE IF ac_cat \in {LIABILITY, INCOME}
            THEN [exception |-> "None",
                  net_balance |-> total_credit - total_debit,
                  net_debit |-> Max(-(total_credit - total_debit), 0),
                  net_credit |-> Max(total_credit - total_debit, 0),
                  total_debit |-> total_debit, total_credit |-> total_credit]
        ELSE [exception |-> "UnboundLocalError",
              net_balance |-> 0, net_debit |-> 0, net_credit |-> 0,
              total_debit |-> total_debit, total_credit |-> total_credit]

\* Ac.bal of the stored account pk on the stored splits.
bal(pk, start_date, end_date) == bal_on(splits, pk, start_date, end_date)

\* ------------------------------------------------------------------ Init
\* The chart of accounts of tests.py setUpTestData, cut to its first n
\* rows: a Liability root, a child of it, a standalone Asset root, further
\* children of the Liability root.  These rows are in the table before the
\* first save() (a data migration or bulk_create sends no pre_save); every
\* write after that goes through save().
FixtureAc(k) ==
    IF k = 1 THEN [p_ac |-> Null, cat |-> LIABILITY, t_ac |-> IMPERSONAL, mem |-> Null]
    ELSE IF k = 3 THEN [p_ac |-> Null, cat |-> ASSET, t_ac |-> IMPERSONAL, mem |-> Null]
    ELSE [p_ac |-> 1, cat |-> "None", t_ac |-> IMPERSONAL, mem |-> Null]

NoLast ==
    [op |-> "none", pk |-> Null, target |-> Null, result |-> "ok",
     difference |-> 0]

\* An instance and a split that stand for none.
NoInst == [p_ac |-> Null, cat |-> "None", t_ac |-> IMPERSONAL, mem |-> Null]
NoSplit == [tx |-> Null, ac |-> Null, t_sp |-> DEBIT, am |-> 0]

NoSaves ==
    [ac |-> [pc |-> "idle", pk |-> Null, inst |-> NoInst, res |-> "ok"],
     sp |-> [pc |-> "idle", sp |-> NoSplit, res |-> "ok"]]

NoBlock == [open |-> FALSE, t |-> Null, revert_tx |-> Null, tx_date |-> Null,
            todo |-> EmptyBag, written |-> EmptyBag]

Init ==
    /\ \E n \in 0..MaxAcs : acs = [k \in 1..n |-> FixtureAc(k)]
    /\ txs = {}
    /\ splits = EmptyBag
    /\ last = NoLast
    /\ tx_date = <<>>
    /\ block = NoBlock
    /\ saves = NoSaves

\* ----------------------------------------------------------- ledger Init
\* A ledger that is already in use.  Its chart is one of the two kinds of
\* chart of setUpTestData, the single account or the parent with its two
\* children, with the root in category c.
LedgerAc(k, c) ==
    IF FixtureAc(k).p_ac = Null THEN [FixtureAc(k) EXCEPT !.cat = c]
                                ELSE FixtureAc(k)

LedgerAcSets == {{3}, {1, 2, 4}}

LedgerChart(K, c) == [k \in K |-> LedgerAc(k, c)]

\* The debit splits of test_current_balance on the single account and on
\* the first child: an earlier transaction of the ledger.
OpeningRows ==
    {[tx |-> 1, ac |-> 3, t_sp |-> DEBIT, am |-> 100],
     [tx |-> 1, ac |-> 2, t_sp |-> DEBIT, am |-> 200]}

LedgerAmValues == {30, 50}

\* The rows Split.save() accepts for transaction t: any side and amount on
\* an account that is not a parent.
LedgerRows(t) ==
    [tx : {t}, ac : {k \in DOMAIN acs : ~is_parent(k)},
     t_sp : TYPE_SPLIT_CHOICES, am : LedgerAmValues]

RECURSIVE SeqToBag(_)
SeqToBag(q) ==
    IF q = <<>> THEN EmptyBag ELSE SetToBag({Head(q)}) (+) SeqToBag(Tail(q))

\* The split tables of a transaction t of at most MaxLedgerSplits rows.
LedgerBags(t) ==
    {SeqToBag(q) : q \in UNION {[1..n -> LedgerRows(t)] : n \in 0..MaxLedgerSplits}}

\* The ledger holds the opening transaction, dated today, and a second
\* transaction, dated the day after, with any of these tables.
LedgerInit ==
    /\ \E K \in LedgerAcSets, c \in CATEGORY_CHOICES : acs = LedgerChart(K, c)
    /\ txs = {1, 2}
    /\ tx_date = <<Today, Today + 1>>
    /\ \E b \in LedgerBags(2) :
           splits = SetToBag({r \in OpeningRows : r.ac \in DOMAIN acs}) (+) b
    /\ last = NoLast
    /\ block = NoBlock
    /\ saves = NoSaves

\* --------------------------------------------------------------- actions
\* The pk an insert gets: the smallest unused one, none when the table is
\* as large as the model lets it grow.
NextPk(used, all) ==
    IF all \ used = {} THEN {}
    ELSE {CHOOSE p \in all \ used : \A q \in all \ used : p <= q}

\* Ac.save(): insert (pk new) or update (pk stored); pre_save runs first.
AcSave(pk, inst) ==
    /\ pk \in DOMAIN acs \cup NextPk(DOMAIN acs, AcPks)
    /\ inst.p_ac = Null \/ inst.p_ac \in DOMAIN acs
    /\ LET r == raise_exceptions_ac(pk, inst)
       IN  /\ acs' = IF r = "ok" THEN (pk :> inst) @@ acs ELSE acs
           /\ last' = [op |-> "AcSave", pk |-> pk, target |-> inst.p_ac,
                       result |-> r, difference |-> 0]
    /\ UNCHANGED <<txs, splits, tx_date, block, saves>>

\* Ac.delete(): no receiver is registered for the delete; on_delete=PROTECT
\* of Ac.p_ac and of Split.ac refuses the delete of an account that a child
\* account or a split refers to.
AcDelete(pk) ==
    /\ pk \in DOMAIN acs
    /\ LET r == IF ac_set_exists(pk) \/ split_set_exists(pk)
                    THEN "ProtectedError" ELSE "ok"
       IN  /\ acs' = IF r = "ok" THEN [k \in DOMAIN acs \ {pk} |-> acs[k]]
                                 ELSE acs
           /\ last' = [op |-> "AcDelete", pk |-> pk, target |-> acs[pk].p_ac,
                       result |-> r, difference |-> 0]
    /\ UNCHANGED <<txs, splits, tx_date, block, saves>>

\* Transaction.objects.create(): no receiver is registered for Transaction;
\* tx_date is the date timezone.now gives.
TxCreate(pk) ==
    /\ pk \in NextPk(txs, TxPks)
    /\ txs' = txs \cup {pk}
    /\ tx_date' = (pk :> Today) @@ tx_date
    /\ last' = [op |-> "TxCreate", pk |-> pk, target |-> pk,
                result |-> "ok", difference |-> 0]
    /\ UNCHANGED <<acs, splits, block, saves>>

\* Split.save() with the check run after the row is written.
SplitInsert_checked_after_write(sp) ==
    /\ sp.tx \in txs
    /\ sp.ac \in DOMAIN acs
    /\ BagCardinality(splits) < MaxSplits
    /\ splits' = splits (+) SetToBag({sp})
    /\ last' = [op |-> "SplitInsert", pk |-> Null, target |-> sp.ac,
                result |-> raise_exceptions_split(sp), difference |-> 0]
    /\ UNCHANGED <<acs, txs, tx_date, block, saves>>

\* Split.save() of a new row; pre_save runs first.
SplitInsert(sp) ==
    /\ sp.tx \in txs
    /\ sp.ac \in DOMAIN acs
    /\ BagCardinality(splits) < MaxSplits
    /\ LET r == raise_exceptions_split(sp)
       IN  /\ splits' = IF r = "ok" THEN splits (+) SetToBag({sp}) ELSE splits
           /\ last' = [op |-> "SplitInsert", pk |-> Null, target |-> sp.ac,
                       result |-> r, difference |-> 0]
    /\ UNCHANGED <<acs, txs, tx_date, block, saves>>

\* Split.save() of a stored row old whose fields were set to sp.
SplitUpdate(old, sp) ==
    /\ BagIn(old, splits)
    /\ sp.tx \in txs
    /\ sp.ac \in DOMAIN acs
    /\ LET r == raise_exceptions_split(sp)
       IN  /\ splits' = IF r = "ok"
                            THEN (splits (-) SetToBag({old})) (+) SetToBag({sp})
                            ELSE splits
           /\ last' = [op |-> "SplitUpdate", pk |-> Null, target |-> sp.ac,
                       result |-> r, difference |-> 0]
    /\ UNCHANGED <<acs, txs, tx_date, block, saves>>

ValidateTransaction(t) ==
    /\ t \in txs
    /\ last' = [op |-> "validate_transaction", pk |-> Null, target |-> t,
                result |-> validate_transaction(t), difference |-> 0]
    /\ UNCHANGED <<acs, txs, splits, tx_date, block, saves>>

ValidateAccountingEquation ==
    /\ last' = [op |-> "validate_accounting_equation", pk |-> Null,
                target |-> Null, result |-> validate_accounting_equation,
                difference |-> equation_difference]
    /\ UNCHANGED <<acs, txs, splits, tx_date, block, saves>>

\* Transaction.revert_transaction: inside transaction.atomic(), a new
\* transaction and, through Split.objects.create (pre_save included), one
\* split per split of t with the side swapped.  An exception leaves the
\* block and rolls every write of the block back.
\* The side of the new split taken over from the split.
RevertSide_unchanged(t_sp) == t_sp

RevertSide(t_sp) == IF t_sp = CREDIT THEN DEBIT ELSE CREDIT

\* The new split with twice the amount of the split.
RevertRow_doubled(r, revert_tx) ==
    [tx |-> revert_tx, ac |-> r.ac, t_sp |-> RevertSide(r.t_sp),
     am |-> r.am + r.am]

RevertRow(r, revert_tx) ==
    [tx |-> revert_tx, ac |-> r.ac, t_sp |-> RevertSide(r.t_sp), am |-> r.am]

RevertBag(t, revert_tx) ==
    LET rows == split_set(t)
        new == {RevertRow(r, revert_tx) : r \in rows}
    IN  [n \in new |->
            CopiesIn([tx |-> t, ac |-> n.ac, t_sp |-> RevertSide(n.t_sp),
                      am |-> n.am], splits)]

RevertTransaction(t, revert_tx) ==
    /\ t \in txs
    /\ revert_tx \in NextPk(txs, TxPks)
    /\ BagCardinality(splits) + BagCardinality(RevertBag(t, revert_tx)) <= MaxSplits
    /\ LET failed == {r \in split_set(t) :
                          raise_exceptions_split(RevertRow(r, revert_tx)) # "ok"}
       IN  IF failed = {}
           THEN /\ txs' = txs \cup {revert_tx}
                /\ tx_date' = (revert_tx :> Today) @@ tx_date
                /\ splits' = splits (+) RevertBag(t, revert_tx)
                /\ last' = [op |-> "revert_transaction", pk |-> revert_tx,
                            target |-> t, result |-> "ok", difference |-> 0]
           ELSE /\ UNCHANGED <<txs, splits, tx_date>>
                /\ last' = [op |-> "revert_transaction", pk |-> Null,
                            target |-> t,
                            result |-> "TransactionOnParentAcError",
                            difference |-> 0]
    /\ UNCHANGED <<acs, block, saves>>

\* revert_transaction step by step, as another connection sees it: the
\* writes made inside transaction.atomic() are kept in block and reach the
\* tables at commit (READ COMMITTED or stronger).  The ledger is followed
\* through one revert: no call has returned when it begins.
\* RevertBegin enters the block, creates revert_tx with the tx_date
\* timezone.now gives and evaluates self.split_set.all().
RevertBegin(t) ==
    /\ t \in txs
    /\ block = NoBlock
    /\ \E revert_tx \in NextPk(txs, 1..(Cardinality(txs) + 1)) :
           block' = [open |-> TRUE, t |-> t, revert_tx |-> revert_tx,
                     tx_date |-> Today,
                     todo |-> [r \in split_set(t) |-> CopiesIn(r, splits)],
                     written |-> EmptyBag]
    /\ UNCHANGED <<acs, txs, splits, last, tx_date, saves>>

\* One pass of the loop with every write committed at once.
RevertWrite_autocommit(r) ==
    /\ block.open
    /\ BagIn(r, block.todo)
    /\ splits' = splits (+) SetToBag({RevertRow(r, block.revert_tx)})
    /\ block' = [block EXCEPT !.todo = @ (-) SetToBag({r})]
    /\ UNCHANGED <<acs, txs, last, tx_date, saves>>

\* One pass of the loop: Split.objects.create of the mirror of r, pre_save
\* included; the queryset has no ordering, so r is any row that is left.
\* An exception leaves the block, which rolls its writes back.
RevertWrite(r) ==
    /\ block.open
    /\ BagIn(r, block.todo)
    /\ LET new == RevertRow(r, block.revert_tx)
           res == raise_exceptions_split(new)
       IN  IF res = "ok"
           THEN /\ block' = [block EXCEPT !.todo = @ (-) SetToBag({r}),
                                          !.written = @ (+) SetToBag({new})]
                /\ UNCHANGED last
           ELSE /\ block' = NoBlock
                /\ last' = [op |-> "revert_transaction", pk |-> Null,
                            target |-> block.t, result |-> res,
                            difference |-> 0]
    /\ UNCHANGED <<acs, txs, splits, tx_date, saves>>

\* The loop is over: the block commits and revert_tx is returned.
RevertCommit ==
    /\ block.open
    /\ block.todo = EmptyBag
    /\ txs' = txs \cup {block.revert_tx}
    /\ tx_date' = (block.revert_tx :> block.tx_date) @@ tx_date
    /\ splits' = splits (+) block.written
    /\ block' = [NoBlock EXCEPT !.t = block.t, !.revert_tx = block.revert_tx]
    /\ last' = [op |-> "revert_transaction", pk |-> block.revert_tx,
                target |-> block.t, result |-> "ok", difference |-> 0]
    /\ UNCHANGED <<acs, saves>>

\* A statement of the block raises a database error (a lost connection, a
\* lock timeout): the exception leaves the block, which rolls back.
RevertFail ==
    /\ block.open
    /\ block' = NoBlock
    /\ last' = [op |-> "revert_transaction", pk |-> Null, target |-> block.t,
                result |-> "DatabaseError", difference |-> 0]
    /\ UNCHANGED <<acs, txs, splits, tx_date, saves>>

\* Ac.bal of a stored account, read from the committed tables.
Balance(pk, start_date, end_date) ==
    /\ pk \in DOMAIN acs
    /\ last' = [op |-> "bal", pk |-> Null, target |-> Null,
                result |-> bal(pk, start_date, end_date).exception,
                difference |-> 0]
    /\ UNCHANGED <<acs, txs, splits, tx_date, block, saves>>

\* ------------------------------------------ two connections, two steps each
\* The first step of Ac.save() with a receiver whose first condition tests
\* for a root instead of reading is_root.
AcSaveValidate_with_root_test(pk, inst) ==
    /\ saves.ac.pc = "idle"
    /\ pk \in DOMAIN acs \cup NextPk(DOMAIN acs, AcPks)
    /\ inst.p_ac = Null \/ inst.p_ac \in DOMAIN acs
    /\ saves' = [saves EXCEPT !.ac =
                     [pc |-> "checked", pk |-> pk, inst |-> inst,
                      res |-> raise_exceptions_ac_with_root_test(pk, inst)]]
    /\ UNCHANGED <<acs, txs, splits, last, tx_date, block>>

\* Ac.save() up to the end of its pre_save receiver: what the receiver
\* raises, or "ok", is held until the second step.
AcSaveValidate(pk, inst) ==
    /\ saves.ac.pc = "idle"
    /\ pk \in DOMAIN acs \cup NextPk(DOMAIN acs, AcPks)
    /\ inst.p_ac = Null \/ inst.p_ac \in DOMAIN acs
    /\ saves' = [saves EXCEPT !.ac = [pc |-> "checked", pk |-> pk,
                                      inst |-> inst,
                                      res |-> raise_exceptions_ac(pk, inst)]]
    /\ UNCHANGED <<acs, txs, splits, last, tx_date, block>>

\* The rest of Ac.save(): the exception of the receiver leaves save(), or
\* the row is written; the foreign key p_ac refuses a parent that was
\* deleted after the receiver ran.
AcSaveWrite ==
    /\ saves.ac.pc = "checked"
    /\ LET s == saves.ac
           r == IF s.res # "ok" THEN s.res
                ELSE IF s.inst.p_ac # Null /\ s.inst.p_ac \notin DOMAIN acs
                    THEN "IntegrityError"
                ELSE "ok"
       IN  /\ acs' = IF r = "ok" THEN (s.pk :> s.inst) @@ acs ELSE acs
           /\ last' = [op |-> "AcSaveWrite", pk |-> Null,
                       target |-> s.inst.p_ac, result |-> r,
                       difference |-> 0]
    /\ saves' = [saves EXCEPT !.ac = [NoSaves.ac EXCEPT !.pc = "done"]]
    /\ UNCHANGED <<txs, splits, tx_date, block>>

\* Split.save() of a new row up to the end of its pre_save receiver.
SplitSaveValidate(sp) ==
    /\ saves.sp.pc = "idle"
    /\ sp.tx \in txs
    /\ sp.ac \in DOMAIN acs
    /\ BagCardinality(splits) < MaxSplits
    /\ saves' = [saves EXCEPT !.sp = [pc |-> "checked", sp |-> sp,
                                      res |-> raise_exceptions_split(sp)]]
    /\ UNCHANGED <<acs, txs, splits, last, tx_date, block>>

\* The rest of Split.save(): the exception of the receiver leaves save(),
\* or the row is written; the foreign key ac refuses an account that was
\* deleted after the receiver ran.
SplitSaveWrite ==
    /\ saves.sp.pc = "checked"
    /\ LET s == saves.sp
           r == IF s.res # "ok" THEN s.res
                ELSE IF s.sp.ac \notin DOMAIN acs THEN "IntegrityError"
                ELSE "ok"
       IN  /\ splits' = IF r = "ok" THEN splits (+) SetToBag({s.sp})
                                    ELSE splits
           /\ last' = [op |-> "SplitSaveWrite", pk |-> Null,
                       target |-> s.sp.ac, result |-> r, difference |-> 0]
    /\ saves' = [saves EXCEPT !.sp = [NoSaves.sp EXCEPT !.pc = "done"]]
    /\ UNCHANGED <<acs, txs, tx_date, block>>

Next ==
    \/ \E pk \in DOMAIN acs \cup NextPk(DOMAIN acs, AcPks), inst \in AcInstances :
           AcSave(pk, inst)
    \/ \E pk \in TxPks : TxCreate(pk)
    \/ \E sp \in SplitInstances : SplitInsert(sp)
    \/ \E old \in BagToSet(splits), sp \in SplitInstances : SplitUpdate(old, sp)
    \/ \E t \in TxPks : ValidateTransaction(t)
    \/ ValidateAccountingEquation
    \/ \E t \in TxPks, revert_tx \in TxPks : RevertTransaction(t, revert_tx)

Spec == Init /\ [][Next]_vars

\* The ledger in use: one revert, with balance and equation queries of
\* other connections between its steps.
LedgerNext ==
    \/ \E t \in txs : RevertBegin(t)
    \/ \E r \in BagToSet(block.todo) : RevertWrite(r)
    \/ RevertCommit
    \/ RevertFail
    \/ \E pk \in DOMAIN acs, start_date \in {Null} \cup Dates,
          end_date \in {Null} \cup Dates :
           Balance(pk, start_date, end_date)
    \/ ValidateAccountingEquation

SpecLedger == LedgerInit /\ [][LedgerNext]_vars

\* Two connections at work on one chart: one saves an account, the other
\* saves a split of the one stored transaction, each once; accounts are
\* deleted and balances read between their steps.
WritersInit ==
    /\ \E n \in 0..MaxAcs : acs = [k \in 1..n |-> FixtureAc(k)]
    /\ txs = {1}
    /\ tx_date = <<Today>>
    /\ splits = EmptyBag
    /\ last = NoLast
    /\ block = NoBlock
    /\ saves = NoSaves

WritersNext ==
    \/ \E pk \in DOMAIN acs \cup NextPk(DOMAIN acs, AcPks),
          inst \in WriterAcInstances :
           AcSaveValidate(pk, inst)
    \/ AcSaveWrite
    \/ \E sp \in SplitInstances : SplitSaveValidate(sp)
    \/ SplitSaveWrite
    \/ \E pk \in DOMAIN acs : AcDelete(pk)
    \/ \E pk \in DOMAIN acs, start_date \in {Null} \cup Dates,
          end_date \in {Null} \cup Dates :
           Balance(pk, start_date, end_date)

SpecWriters == WritersInit /\ [][WritersNext]_vars

\* The shape of the states of Spec and of SpecWriters.
TypeOK ==
    /\ DOMAIN acs \subseteq AcPks
    /\ txs \subseteq TxPks
    /\ BagCardinality(splits) <= MaxSplits
    /\ \A r \in BagToSet(splits) : r.tx \in txs /\ r.ac \in DOMAIN acs
    /\ DOMAIN tx_date = txs
    /\ \A t \in txs : tx_date[t] \in Dates
    /\ block.open \in BOOLEAN
    /\ saves.ac.pc \in {"idle", "checked", "done"}
    /\ saves.sp.pc \in {"idle", "checked", "done"}

\* ======================================================================
\* Properties
\* ======================================================================
\* The stored tables: an operation that changes none of them stored nothing.
db == <<acs, txs, splits, tx_date>>

\* The account rules as the specification words them: a root (no parent, a
\* category) or a child (a parent, no category) of a root that holds no
\* split, the member present exactly on a personal account.
IsRootInstance(inst) == inst.p_ac = Null /\ inst.cat # "None"
IsChildInstance(inst) == inst.p_ac # Null /\ inst.cat = "None"
SatisfiesAccountRules(inst) ==
    /\ \/ IsRootInstance(inst)
       \/ /\ IsChildInstance(inst)
          /\ IsRootInstance(acs[inst.p_ac])
          /\ ~split_set_exists(inst.p_ac)
    /\ (inst.t_ac = PERSONAL) <=> (inst.mem # Null)

\* Plain sums over the split table, zero when no row matches.
DebitRows(t) == {r \in split_set(t) : r.t_sp = DEBIT}
CreditRows(t) == {r \in split_set(t) : r.t_sp = CREDIT}
DebitSum(t) == SumAm(DebitRows(t))
CreditSum(t) == SumAm(CreditRows(t))
TotalDebit == SumAm({r \in BagToSet(splits) : r.t_sp = DEBIT})
TotalCredit == SumAm({r \in BagToSet(splits) : r.t_sp = CREDIT})

\* C1: a save of an account that satisfies every account rule succeeds and
\* stores the account, and a rejected save is rejected with one of the
\* AccountError variants, never with another kind of error.
C1_SaveAcceptsValidAndRaisesAccountError ==
    [][\A pk \in AcPks, inst \in AcInstances :
          AcSave(pk, inst) =>
              /\ SatisfiesAccountRules(inst) =>
                     (last'.result = "ok" /\ acs' = (pk :> inst) @@ acs)
              /\ last'.result \in AccountErrors \cup {"ok"}]_vars

\* C2: in every reachable state no account has both a child account and a
\* split.
C2_NoChildrenAndSplits ==
    \A k \in DOMAIN acs : ~(ac_set_exists(k) /\ split_set_exists(k))

\* A save tried to put a child under an account that holds a split, and the
\* account still has no child.
C2_Witness ==
    /\ last.op = "AcSave"
    /\ last.target # Null
    /\ split_set_exists(last.target)
    /\ ~ac_set_exists(last.target)

\* C3: a split save (insert or update) whose target account has at least
\* one child account at the time of the write raises
\* TransactionOnParentAcError and stores nothing.
C3_SplitOnParentRejected ==
    [][(/\ last'.op \in {"SplitInsert", "SplitUpdate"}
        /\ ac_set_exists(last'.target))
       => (last'.result = "TransactionOnParentAcError" /\ UNCHANGED db)]_vars

\* A split save on an account with a child was rejected while the ledger
\* already holds a split on another account.
C3_Witness ==
    /\ last.op \in {"SplitInsert", "SplitUpdate"}
    /\ last.result = "TransactionOnParentAcError"
    /\ ac_set_exists(last.target)
    /\ splits # EmptyBag

\* C4: a save of an account whose parent already has a split raises
\* AccountWithTransactionCannotBeParentError and stores nothing.
C4_ChildUnderAccountWithSplitRejected ==
    [][\A pk \in AcPks, inst \in AcInstances :
          (AcSave(pk, inst) /\ inst.p_ac # Null /\ split_set_exists(inst.p_ac))
          => (/\ last'.result = "AccountWithTransactionCannotBeParentError"
              /\ UNCHANGED db)]_vars

C6_ExactlyRootOrChild ==
    \A k \in DOMAIN acs : IsRootInstance(acs[k]) # IsChildInstance(acs[k])

C6_RootOrChildAndOrphanRejected ==
    [][/\ C6_ExactlyRootOrChild'
       /\ \A pk \in AcPks, inst \in AcInstances :
              (AcSave(pk, inst) /\ inst.p_ac = Null /\ inst.cat = "None")
              => (last'.result = "InvalidAccountError" /\ UNCHANGED db)]_vars

\* C7 as stated: for every stored transaction, in every reachable state,
\* the debit sum equals the credit sum.
C7_EveryTransactionBalanced ==
    \A t \in txs : DebitSum(t) = CreditSum(t)

\* C7 as amended: for every stored transaction on which
\* validate_transaction returns True, the debit sum equals the credit sum.
C7_ValidatedTransactionBalanced ==
    \A t \in txs :
        validate_transaction(t) = "True" => DebitSum(t) = CreditSum(t)

\* validate_transaction returned True on a transaction that moves an
\* amount, while the ledger also holds a transaction it would reject.
C7_Witness ==
    /\ last.op = "validate_transaction"
    /\ last.result = "True"
    /\ DebitSum(last.target) > 0
    /\ \E t \in txs : validate_transaction(t) # "True"

\* C8 as stated: after every successful write (split save, transaction
\* creation, revert) the sum of all debit amounts equals the sum of all
\* credit amounts.
C8_EquationHoldsAfterEveryWrite ==
    (/\ last.op \in {"SplitInsert", "SplitUpdate", "TxCreate",
                     "revert_transaction"}
     /\ last.result = "ok")
    => TotalDebit = TotalCredit

\* C8 as amended: after a successful write, validate_accounting_equation
\* returns True whenever validate_transaction accepts every stored
\* transaction that has splits.
C8_EquationHoldsWhenTransactionsBalanced ==
    (/\ last.op \in {"SplitInsert", "SplitUpdate", "TxCreate",
                     "revert_transaction"}
     /\ last.result = "ok"
     /\ \A t \in txs :
            validate_transaction(t) \in {"True", "EmptyTransactionError"})
    => validate_accounting_equation = "True"

\* A split save completed a balanced transaction that moves an amount.
C8_Witness ==
    /\ last.op \in {"SplitInsert", "SplitUpdate"}
    /\ last.result = "ok"
    /\ \A t \in txs :
           validate_transaction(t) \in {"True", "EmptyTransactionError"}
    /\ TotalDebit > 0

\* C9: validate_accounting_equation raises
\* AccountingEquationViolationError with the signed difference (total
\* debit minus total credit) exactly when the two totals differ, returns
\* True otherwise (an empty ledger included), and stores nothing.
C9_EquationValidation ==
    [][last'.op = "validate_accounting_equation" =>
          /\ UNCHANGED db
          /\ IF TotalDebit # TotalCredit
                 THEN /\ last'.result = "AccountingEquationViolationError"
                      /\ last'.difference = TotalDebit - TotalCredit
                 ELSE last'.result = "True"]_vars

\* The equation check raised with a negative difference.
C9_Witness ==
    /\ last.op = "validate_accounting_equation"
    /\ last.result = "AccountingEquationViolationError"
    /\ last.difference < 0

\* C10: validate_transaction raises EmptyTransactionError exactly when the
\* transaction has no split, returns True exactly when both sides are
\* present with equal sums, and raises UnbalancedTransactionError when it
\* has splits whose sums differ or that are all of one side.
C10_TransactionValidation ==
    \A t \in txs :
        /\ validate_transaction(t) = "EmptyTransactionError"
               <=> split_set(t) = {}
        /\ validate_transaction(t) = "True"
               <=> (/\ DebitRows(t) # {}
                    /\ CreditRows(t) # {}
                    /\ DebitSum(t) = CreditSum(t))
        /\ (/\ split_set(t) # {}
            /\ \/ DebitSum(t) # CreditSum(t)
               \/ DebitRows(t) = {}
               \/ CreditRows(t) = {})
               => validate_transaction(t) = "UnbalancedTransactionError"

\* validate_transaction raised UnbalancedTransactionError on a transaction
\* with a single zero-amount split, whose two sums are both zero.
C10_Witness ==
    /\ last.op = "validate_transaction"
    /\ last.result = "UnbalancedTransactionError"
    /\ CreditRows(last.target) = {}
    /\ DebitSum(last.target) = 0

\* The side that is not the given one.
Opposite(side) == CHOOSE x \in TYPE_SPLIT_CHOICES : x # side

\* The rows of transaction t in a split table.
RowsOf(table, t) == {r \in BagToSet(table) : r.tx = t}

\* In a split table the rows of x and the rows of t are in one-to-one
\* correspondence: same account, same amount, opposite side.
Mirrored(table, t, x) ==
    /\ \A r \in RowsOf(table, t) :
           CopiesIn([tx |-> x, ac |-> r.ac, t_sp |-> Opposite(r.t_sp),
                     am |-> r.am], table) = CopiesIn(r, table)
    /\ \A n \in RowsOf(table, x) :
           CopiesIn([tx |-> t, ac |-> n.ac, t_sp |-> Opposite(n.t_sp),
                     am |-> n.am], table) = CopiesIn(n, table)

\* A split table without the rows of the transactions X.
Without(table, X) ==
    [r \in {x \in BagToSet(table) : x.tx \notin X} |-> CopiesIn(r, table)]

\* C11: when revert_transaction on T returns, exactly one transaction T' is
\* new, the splits of T' are in one-to-one correspondence with the splits
\* of T (same account, same amount, opposite side), and T, its splits and
\* every other stored row are as they were.
C11_RevertMirrorsTransaction ==
    [][(last'.op = "revert_transaction" /\ last'.result = "ok")
       => /\ last'.pk \notin txs
          /\ txs' = txs \cup {last'.pk}
          /\ Mirrored(splits', last'.target, last'.pk)
          /\ Without(splits', {last'.pk}) = splits
          /\ \A t \in txs : tx_date'[t] = tx_date[t]
          /\ acs' = acs]_vars

\* A revert returned for a transaction that holds two equal splits.
C11_Witness ==
    /\ last.op = "revert_transaction"
    /\ last.result = "ok"
    /\ \E r \in RowsOf(splits, last.target) : CopiesIn(r, splits) = 2

\* The accounts a transaction touches and the parents of these accounts.
Touched(t) ==
    {r.ac : r \in RowsOf(splits, t)}
        \cup ({acs[r.ac].p_ac : r \in RowsOf(splits, t)} \ {Null})

\* C12: once T and its revert T' are both stored, every account T touches
\* and every parent of such an account has the net_balance bal gives on
\* the ledger without T and T', which is its net_balance before T.
C12_RevertRestoresNetBalance ==
    (~block.open /\ block.revert_tx # Null) =>
        \A a \in Touched(block.t) :
            bal(a, Null, Null).net_balance
                = bal_on(Without(splits, {block.t, block.revert_tx}),
                         a, Null, Null).net_balance

\* A revert returned for a transaction on a child account, and the parent
\* of the child has a net balance that is not zero.
C12_Witness ==
    /\ ~block.open
    /\ block.revert_tx # Null
    /\ \E a \in Touched(block.t) :
           /\ is_parent(a)
           /\ bal(a, Null, Null).net_balance # 0
    /\ \E r \in RowsOf(splits, block.t) : is_child(acs[r.ac])

\* C13: in every state another connection can observe, while the revert
\* runs, after it returned and after it failed, the reverting transaction
\* is not stored and no split refers to it, or it is stored with exactly
\* one mirrored split per split of the original.
C13_RevertAllOrNothing ==
    /\ \A r \in BagToSet(splits) : r.tx \in txs
    /\ block.open => block.revert_tx \notin txs
    /\ (~block.open /\ block.revert_tx # Null) =>
           /\ block.revert_tx \in txs
           /\ Mirrored(splits, block.t, block.revert_tx)

\* A balance query ran while the block of a revert had written one split
\* and had another one left to write.
C13_Witness ==
    /\ last.op = "bal"
    /\ block.open
    /\ block.written # EmptyBag
    /\ block.todo # EmptyBag

\* C14: the splits of one transaction are written as one all-or-nothing
\* unit: when the save of a split of the transaction fails validation, no
\* split of that transaction remains stored.
C14_FailedSplitLeavesNoSplitOfItsTransaction ==
    [][\A sp \in SplitInstances :
          (SplitInsert(sp) /\ last'.result # "ok")
              => \A r \in BagToSet(splits') : r.tx # sp.tx]_vars

\* C14 as the code has it: every split is saved on its own, a split save
\* that fails validation stores nothing and changes no stored row, and the
\* splits saved before it stay stored.
C14_FailedSplitSaveStoresNothing ==
    [][(/\ last'.op \in {"SplitInsert", "SplitUpdate"}
        /\ last'.result # "ok")
       => UNCHANGED db]_vars

\* A split save failed while every stored transaction, the one of the
\* failed split among them, holds a split saved earlier.
C14_Witness ==
    /\ last.op \in {"SplitInsert", "SplitUpdate"}
    /\ last.result # "ok"
    /\ txs # {}
    /\ \A t \in txs : split_set(t) # {}

\* The direct children of an account.
Children(p) == {k \in DOMAIN acs : acs[k].p_ac = p}

\* The dates bal is called with: None or a date.
DateInputs == {Null} \cup Dates

\* The sum over the accounts K of the field f of the balances b[k].
RECURSIVE SumOfBalances(_, _, _)
SumOfBalances(b, K, f) ==
    IF K = {} THEN 0
    ELSE LET k == CHOOSE x \in K : TRUE
         IN  b[k][f] + SumOfBalances(b, K \ {k}, f)

\* C15: for every root P that has children and every date range, a missing
\* start or end included, total_debit, total_credit and net_balance of
\* P's balance each equal the sum of the same field over the balances of
\* P's direct children for the same range.
C15_ParentBalanceIsSumOfChildren ==
    \A p \in DOMAIN acs :
        (acs[p].p_ac = Null /\ Children(p) # {}) =>
            \A start_date \in DateInputs, end_date \in DateInputs :
                LET b == [k \in Children(p) \cup {p} |->
                             bal(k, start_date, end_date)]
                IN  \A f \in {"total_debit", "total_credit", "net_balance"} :
                        b[p][f] = SumOfBalances(b, Children(p), f)

\* A balance was asked for while both children of the parent hold splits
\* and the parent's net balance from tomorrow on differs from its net
\* balance over all dates.
C15_Witness ==
    /\ last.op = "bal"
    /\ \E p \in DOMAIN acs :
           /\ Cardinality(Children(p)) = 2
           /\ \A k \in Children(p) : split_set_exists(k)
           /\ bal(p, Today + 1, Null).net_balance # 0
           /\ bal(p, Today + 1, Null).net_balance
                  # bal(p, Null, Null).net_balance

\* The category that decides the sign of an account: the parent's for a
\* child.
CategoryOf(a) ==
    IF acs[a].p_ac # Null THEN acs[acs[a].p_ac].cat ELSE acs[a].cat

\* The plain sum of the amounts of the splits of one side of an account.
OwnSum(a, side) ==
    SumAm({r \in BagToSet(splits) : r.ac = a /\ r.t_sp = side})

\* C16: for an account without children (standalone or child), bal gives
\* total_debit and total_credit as the sums of the account's own debit and
\* credit splits, zero when there are none, and net_balance as debit minus
\* credit for Asset and Expense and credit minus debit for Liability and
\* Income, a child taking the category of its parent.
C16_LeafBalance ==
    \A a \in DOMAIN acs :
        Children(a) = {} =>
            LET b == bal(a, Null, Null)
            IN  /\ b.total_debit = OwnSum(a, DEBIT)
                /\ b.total_credit = OwnSum(a, CREDIT)
                /\ CategoryOf(a) \in {ASSET, EXPENSES} =>
                       b.net_balance = OwnSum(a, DEBIT) - OwnSum(a, CREDIT)
                /\ CategoryOf(a) \in {LIABILITY, INCOME} =>
                       b.net_balance = OwnSum(a, CREDIT) - OwnSum(a, DEBIT)

\* A balance was asked for while a standalone Asset account holds debits
\* of 100 and 50 and a credit of 30 and nothing else: its balance is
\* total_debit 150, total_credit 30, net_balance 120, net_debit 120,
\* net_credit 0.
C16_Witness ==
    /\ last.op = "bal"
    /\ \E a \in DOMAIN acs :
           /\ acs[a].p_ac = Null
           /\ Children(a) = {}
           /\ acs[a].cat = ASSET
           /\ {<<r.t_sp, r.am, CopiesIn(r, splits)>> :
                   r \in {x \in BagToSet(splits) : x.ac = a}}
                  = {<<DEBIT, 100, 1>>, <<DEBIT, 50, 1>>, <<CREDIT, 30, 1>>}
           /\ bal(a, Null, Null)
                  = [exception |-> "None", net_balance |-> 120,
                     net_debit |-> 120, net_credit |-> 0,
                     total_debit |-> 150, total_credit |-> 30]

\* C17: every stored split has an amount strictly greater than zero, a
\* save with a zero or negative amount having been refused.
C17_StoredAmountsPositive ==
    \A r \in BagToSet(splits) : r.am > 0

\* C18: a save of an account with both a parent and a category fails with
\* CategoryOnChildAccountError and with no other error, and stores nothing.
C18_CategoryOnChildRejected ==
    [][\A pk \in AcPks, inst \in AcInstances :
          (AcSave(pk, inst) /\ inst.p_ac # Null /\ inst.cat # "None")
              => (last'.result = "CategoryOnChildAccountError"
                  /\ UNCHANGED db)]_vars

\* C19: a save of an account whose parent is the account itself is
\* rejected with the self-referencing error and leaves the stored account
\* as it was, and no stored account is its own parent.
C19_SelfReferenceRejected ==
    [][(last'.op = "AcSave" /\ last'.target = last'.pk)
       => /\ last'.result = "SelfReferencingError"
          /\ UNCHANGED db
          /\ \A k \in DOMAIN acs' : acs'[k].p_ac # k]_vars

C22_NetDebitAndNetCredit ==
    \A a \in DOMAIN acs :
        \A start_date \in DateInputs, end_date \in DateInputs :
            LET b == bal(a, start_date, end_date)
            IN  /\ b.net_debit >= 0
                /\ b.net_credit >= 0
                /\ b.net_debit = 0 \/ b.net_credit = 0
                /\ b.net_debit - b.net_credit
                       = b.total_debit - b.total_credit
                /\ CategoryOf(a) \in {LIABILITY, INCOME} =>
                       /\ b.net_balance > 0 => b.net_credit = b.net_balance
                       /\ b.net_balance < 0 => b.net_debit = -b.net_balance

\* A balance was asked for while a Liability account has more debit than
\* credit: its net_balance is negative and net_debit carries it.
C22_Witness ==
    /\ last.op = "bal"
    /\ \E a \in DOMAIN acs :
           /\ CategoryOf(a) = LIABILITY
           /\ bal(a, Null, Null).net_balance < 0
           /\ bal(a, Null, Null).net_debit > 0
           /\ bal(a, Null, Null).net_credit = 0

\* C21: every stored account is exactly one of parent, standalone and
\* child, each agreeing with what the tables hold now: a root with a child
\* is a parent, a root without one is standalone, an account with a parent
\* is a child.  The three are computed from the tables, so a root changes
\* between parent and standalone when a child of it appears or goes, with
\* no write to the root.
C21_ExactlyOneClassification ==
    \A k \in DOMAIN acs :
        /\ Cardinality({c \in {"parent", "standalone", "child"} :
               \/ c = "parent" /\ is_parent(k)
               \/ c = "standalone" /\ is_standalone(k)
               \/ c = "child" /\ is_child(acs[k])}) = 1
        /\ is_parent(k) <=>
               (acs[k].p_ac = Null /\ acs[k].cat # "None" /\ Children(k) # {})
        /\ is_standalone(k) <=>
               (acs[k].p_ac = Null /\ acs[k].cat # "None" /\ Children(k) = {})
        /\ is_child(acs[k]) <=> acs[k].p_ac # Null

\* The last child of a root was deleted: the root, which was a parent and
\* was not written, is standalone.
C21_Witness ==
    /\ last.op = "AcDelete"
    /\ last.result = "ok"
    /\ last.target \in DOMAIN acs
    /\ is_standalone(last.target)
    /\ ~is_parent(last.target)

====
